---- MODULE Spec2Model ----
(***************************************************************************)
(* Model of pdf-extractor-app.py: the Streamlit script that extracts the   *)
(* text of an uploaded PDF page by page, in chunks, under a size limit and *)
(* an output ceiling, and keeps the result in the session state.           *)
(***************************************************************************)
EXTENDS Integers, Sequences, FiniteSets, TLC

(***************************************************************************)
(* Bounds of the model.                                                    *)
(***************************************************************************)
MaxTextLen == 5      \* longest raw text given to post_process_text
MaxWords == 3        \* most words extract_words returns for one page
MaxTop == 7          \* largest 'top' coordinate of a word
MaxPages == 12       \* most pages of a document given to one extraction run
MaxSessionPages == 6 \* most pages of a document uploaded in a session
HashSpace == 3       \* number of values hash() takes

(***************************************************************************)
(* Program constants.                                                      *)
(***************************************************************************)
MAX_FILE_SIZE == 100 * 1024 * 1024
CHUNK_SIZE == 5
MAX_TEXT_LENGTH == 1000000
LINE_TOLERANCE == 3

\* A Python value that may be None: None is <<>>, a value v is <<v>>.
None == <<>>
Some(v) == <<v>>

Min(a, b) == IF a <= b THEN a ELSE b
Abs(a) == IF a < 0 THEN -a ELSE a

(***************************************************************************)
(* Text: a string is a sequence of one-character strings.  The alphabet    *)
(* has one character of each class the regular expressions of              *)
(* post_process_text distinguish.                                          *)
(***************************************************************************)
NL == "\n"
Alphabet == {"a", " ", NL, ".", ",", "#"}

IsSpace(c) == c \in {" ", NL}
IsPunct(c) == c \in {".", ",", "!", "?", ";", ":"}
IsWordChar(c) == c \in {"a", "b", "c", "d", "e"}
IsAllowed(c) == IsWordChar(c) \/ IsSpace(c) \/ IsPunct(c) \/ c \in {"(", ")", "-", "'"}

\* The elements of s at the indexes in keep, in order.
RECURSIVE KeepIndexes(_, _, _)
KeepIndexes(s, keep, i) ==
    IF i > Len(s) THEN <<>>
    ELSE (IF i \in keep THEN <<s[i]>> ELSE <<>>) \o KeepIndexes(s, keep, i + 1)

\* re.sub(r'[^\w\s.,!?;:()\-...]', '', text)
Whitelist(s) == SelectSeq(s, IsAllowed)

\* re.sub(r'\s+([.,!?;:])', r'\1', text): a whitespace character is removed
\* exactly when the whitespace run it lies in is followed by a punctuation mark.
StripBeforePunct(s) ==
    LET Drop(i) == /\ IsSpace(s[i])
                   /\ \E j \in (i + 1)..Len(s) :
                         /\ IsPunct(s[j])
                         /\ \A k \in (i + 1)..(j - 1) : IsSpace(s[k])
    IN KeepIndexes(s, {i \in 1..Len(s) : ~Drop(i)}, 1)

\* re.sub(r'\.(?!\s)', '. ', text)
RECURSIVE SpacePeriodsFrom(_, _)
SpacePeriodsFrom(s, i) ==
    IF i > Len(s) THEN <<>>
    ELSE (IF s[i] = "." /\ (i = Len(s) \/ ~IsSpace(s[i + 1]))
          THEN <<".", " ">> ELSE <<s[i]>>) \o SpacePeriodsFrom(s, i + 1)

RECURSIVE SpaceAllPeriodsFrom(_, _)
SpaceAllPeriodsFrom(s, i) ==
    IF i > Len(s) THEN <<>>
    ELSE (IF s[i] = "." THEN <<".", " ">> ELSE <<s[i]>>) \o SpaceAllPeriodsFrom(s, i + 1)

\* SpacePeriods with a fault: the negative lookahead (?!\s) is lost.
SpacePeriodsNoLookahead(s) == SpaceAllPeriodsFrom(s, 1)

SpacePeriods(s) == SpacePeriodsFrom(s, 1)

\* re.sub(r'\n{3,}', '\n\n', text): of a run of newlines the first two stay.
CollapseNewlines(s) ==
    LET Drop(i) == i >= 3 /\ s[i] = NL /\ s[i - 1] = NL /\ s[i - 2] = NL
    IN KeepIndexes(s, {i \in 1..Len(s) : ~Drop(i)}, 1)

\* text.strip()
Strip(s) ==
    LET solid == {i \in 1..Len(s) : ~IsSpace(s[i])}
    IN IF solid = {} THEN <<>>
       ELSE LET lo == CHOOSE i \in solid : \A j \in solid : i <= j
                hi == CHOOSE i \in solid : \A j \in solid : j <= i
            IN SubSeq(s, lo, hi)

\* Lines 198-202 (the callers pass a string, never None).
post_process_text(text) ==
    Strip(CollapseNewlines(SpacePeriods(StripBeforePunct(Whitelist(text)))))

(***************************************************************************)
(* Line assembly of process_page: words are records [text, top, x0].       *)
(***************************************************************************)
\* The sort keys of lines 83 (top, x0) and 102 (x0), compared as Python does.
KeyLeq(a, b, key) ==
    IF key = "top_x0" THEN a.top < b.top \/ (a.top = b.top /\ a.x0 <= b.x0)
    ELSE a.x0 <= b.x0

\* sorted(...) is stable: w goes behind every element that is not greater.
RECURSIVE InsertSorted(_, _, _)
InsertSorted(w, s, key) ==
    IF s = <<>> THEN <<w>>
    ELSE IF KeyLeq(s[1], w, key) THEN <<s[1]>> \o InsertSorted(w, Tail(s), key)
         ELSE <<w>> \o s

RECURSIVE SortedBy(_, _)
SortedBy(s, key) ==
    IF s = <<>> THEN <<>>
    ELSE InsertSorted(s[Len(s)], SortedBy(SubSeq(s, 1, Len(s) - 1), key), key)

\* JoinsLine with a fault: the tolerance is exclusive.
JoinsLineStrict(word, current_y) ==
    current_y = None \/ Abs(word.top - current_y[1]) < LINE_TOLERANCE

\* Line 89: the word joins the current line.
JoinsLine(word, current_y) ==
    current_y = None \/ Abs(word.top - current_y[1]) <= LINE_TOLERANCE

\* The loop of lines 88-95 from index i on; the result is the state of
\* (lines, current_line) when the loop ends.
RECURSIVE ScanWords(_, _, _, _, _)
ScanWords(sorted_words, i, lines, current_line, current_y) ==
    IF i > Len(sorted_words) THEN [lines |-> lines, current_line |-> current_line]
    ELSE LET word == sorted_words[i] IN
         IF JoinsLine(word, current_y)
         THEN ScanWords(sorted_words, i + 1, lines, Append(current_line, word),
                        Some(word.top))
         ELSE ScanWords(sorted_words, i + 1,
                        IF current_line # <<>> THEN Append(lines, current_line) ELSE lines,
                        <<word>>, Some(word.top))

\* Lines 83-98.
AssembleLines(words) ==
    LET sorted_words == SortedBy(words, "top_x0")
        r == ScanWords(sorted_words, 1, <<>>, <<>>, None)
    IN IF r.current_line # <<>> THEN Append(r.lines, r.current_line) ELSE r.lines

\* ' '.join(word['text'] for word in sorted(line, key=x0))
RECURSIVE JoinTexts(_)
JoinTexts(ws) ==
    IF ws = <<>> THEN <<>>
    ELSE IF Len(ws) = 1 THEN ws[1].text
         ELSE ws[1].text \o <<" ">> \o JoinTexts(Tail(ws))

\* Lines 100-103.
RECURSIVE RenderLines(_)
RenderLines(lines) ==
    IF lines = <<>> THEN <<>>
    ELSE JoinTexts(SortedBy(lines[1], "x0")) \o <<NL>> \o RenderLines(Tail(lines))

(***************************************************************************)
(* Documents.  The uploaded bytes are a record: their length, whether      *)
(* pdfplumber can open them, and their pages.  A page is what              *)
(* page.extract_words does on it: it raises (chars is the length of the    *)
(* message), returns no words, or returns words whose assembled and        *)
(* post-processed text has chars characters (0: every character of the     *)
(* page is removed by the whitelist).                                      *)
(***************************************************************************)
WordsPage == [extract |-> "words", chars |-> 5]
BlankPage == [extract |-> "words", chars |-> 0]
BigPage == [extract |-> "words", chars |-> MAX_TEXT_LENGTH - 10]
NoWordsPage == [extract |-> "nowords", chars |-> 0]
RaisePage == [extract |-> "raise", chars |-> 7]
NonePage == [extract |-> "none", chars |-> 0]

SpecialPages == {BlankPage, BigPage, NoWordsPage, RaisePage}

\* Page sequences of length n: WordsPage everywhere but at the given places.
SpecialAt(n, places) ==
    {[i \in 1..n |-> IF i = p THEN sp ELSE WordsPage] : p \in places, sp \in SpecialPages}
OneSpecial(n) == SpecialAt(n, 1..n)
TwoSpecial(n) ==
    {[i \in 1..n |-> IF i = pq[1] THEN st[1] ELSE IF i = pq[2] THEN st[2] ELSE WordsPage] :
        pq \in {x \in (1..n) \X (1..n) : x[1] < x[2]}, st \in SpecialPages \X SpecialPages}
AnyFailing(n) == [1..n -> {WordsPage, RaisePage}]

\* In a session: one special page at most, the first or the last page.
SessionPageSeqs ==
    UNION {{[i \in 1..n |-> WordsPage]} \cup SpecialAt(n, {1, n} \cap (1..n)) :
              n \in 0..MaxSessionPages}
RunPageSeqs == UNION {AnyFailing(n) \cup OneSpecial(n) \cup TwoSpecial(n) : n \in 0..MaxPages}

\* sys.getsizeof of a bytes object: its length plus the object header.
BytesHeader == 33
FileSizes == {MAX_FILE_SIZE - BytesHeader, MAX_FILE_SIZE, MAX_FILE_SIZE + 1}

\* The documents over the page sequences seqs: those of the largest size
\* check_file_size accepts, one-page documents of every size, a document
\* pdfplumber cannot open.
Documents(seqs) ==
    [size : {MAX_FILE_SIZE - BytesHeader}, readable : {TRUE}, pages : seqs]
        \cup [size : FileSizes, readable : {TRUE}, pages : {<<WordsPage>>}]
        \cup [size : {MAX_FILE_SIZE - BytesHeader}, readable : {FALSE}, pages : {<<>>}]

RECURSIVE SumChars(_)
SumChars(pages) == IF pages = <<>> THEN 0 ELSE pages[1].chars + SumChars(Tail(pages))

\* hash(uploaded_file.getvalue()): a function of the bytes, not injective.
PyHash(bytes) == (bytes.size + Len(bytes.pages) + SumChars(bytes.pages)) % HashSpace

\* len(pdf.pages)
NumPages(bytes) == Len(bytes.pages)

RECURSIVE Digits(_)
Digits(n) == IF n < 10 THEN 1 ELSE 1 + Digits(n \div 10)

(***************************************************************************)
(* Page texts.  A text is [kind, page, len]: the post-processed text of a  *)
(* page ("text"), or a placeholder naming a page number.                   *)
(***************************************************************************)
ErrorPlaceholder(page_num, msg_len) ==
    [kind |-> "error", page |-> page_num, len |-> 20 + Digits(page_num) + msg_len]
NoContentPlaceholder(page_num) ==
    [kind |-> "no_content", page |-> page_num, len |-> 24 + Digits(page_num)]
PageText(chars) == [kind |-> "text", page |-> 0, len |-> chars]

\* process_page with a fault: the exception of extract_words is not caught.
process_page_uncaught(page, page_num) ==
    IF page.extract = "none" THEN ErrorPlaceholder(page_num, 12)
    ELSE IF page.extract = "raise" THEN [kind |-> "raised", page |-> page_num, len |-> 0]
    ELSE IF page.extract = "nowords" THEN NoContentPlaceholder(page_num)
    ELSE PageText(page.chars)

\* Lines 63-108.
process_page(page, page_num) ==
    IF page.extract = "none" THEN ErrorPlaceholder(page_num, 12)
    ELSE IF page.extract = "raise" THEN ErrorPlaceholder(page_num, page.chars)
    ELSE IF page.extract = "nowords" THEN NoContentPlaceholder(page_num)
    ELSE PageText(page.chars)

\* range(start_page, min(end_page, len(pdf.pages))), line 120, as a sequence.
ChunkRange(start_page, end_page, n) ==
    [k \in 1..(IF Min(end_page, n) > start_page THEN Min(end_page, n) - start_page ELSE 0)
        |-> start_page + k - 1]

\* Lines 110-134: [raised, chunk_text].
extract_text_from_pdf_chunk(bytes, start_page, end_page) ==
    LET range == ChunkRange(start_page, end_page, NumPages(bytes))
        chunk_text == [k \in 1..Len(range) |->
                          process_page(IF range[k] < NumPages(bytes)
                                       THEN bytes.pages[range[k] + 1] ELSE NonePage,
                                       range[k] + 1)]
    IN [raised |-> (~bytes.readable \/ NumPages(bytes) = 0)
                   \/ \E k \in 1..Len(chunk_text) : chunk_text[k].kind = "raised",
        chunk_text |-> chunk_text]

\* ChunkEnd with a fault: the end of the chunk is not cut at the last page.
ChunkEndUncut(start, n) == start + CHUNK_SIZE

\* Line 166.
ChunkEnd(start, n) == Min(start + CHUNK_SIZE, n)

\* `if text` of lines 172 and 226.
Truthy(text) == text.len > 0

\* sum(len(text) for text in chunk_text if text)
RECURSIVE SumLen(_)
SumLen(texts) ==
    IF texts = <<>> THEN 0
    ELSE (IF Truthy(texts[1]) THEN texts[1].len ELSE 0) + SumLen(Tail(texts))

\* ExceedsLimit with a fault: the running total is left out.
ExceedsLimitChunkOnly(total, chunk_length) == chunk_length > MAX_TEXT_LENGTH

\* Line 173.
ExceedsLimit(total_text_length, chunk_length) ==
    total_text_length + chunk_length > MAX_TEXT_LENGTH

\* CacheMiss with a fault: every submission is extracted again; only an
\* empty session is extracted.
CacheMissAlways(stored_hash, file_hash) == TRUE
CacheMissWhenEmpty(stored_hash, file_hash) == stored_hash = None

\* Line 214 (init_session_state has set the key).
CacheMiss(stored_hash, file_hash) == stored_hash # Some(file_hash)

\* Line 57.
TooLarge(bytes) == bytes.size + BytesHeader > MAX_FILE_SIZE

\* Lines 224-229: the final text is the sequence of its page blocks
\* '[Pagina i]\n\n{page_text}\n\n=====\n\n'.
RECURSIVE OutputChunks(_, _)
OutputChunks(pages_text, i) ==
    IF i > Len(pages_text) THEN <<>>
    ELSE (IF Truthy(pages_text[i]) THEN <<[header |-> i, text |-> pages_text[i]]>> ELSE <<>>)
         \o OutputChunks(pages_text, i + 1)

(***************************************************************************)
(* State.                                                                  *)
(***************************************************************************)
VARIABLES
    processed_file_hash,  \* st.session_state.processed_file_hash
    full_text,            \* st.session_state.full_text
    total_pages,          \* st.session_state.total_pages
    uploaded_file,        \* the value of st.file_uploader: None or the bytes
    pc,                   \* position of the script run
    all_pages_text,       \* local of extract_text_from_pdf
    total_text_length,    \* local of extract_text_from_pdf
    start_idx,            \* loop variable of extract_text_from_pdf
    progress,             \* values given to the progress bar, <<done, total>>
    chunks,               \* page numbers given to process_page, one sequence per chunk
    err,                  \* the exception in flight, "none" when there is none
    temp_dir,             \* the directory mkdtemp made for the latest run exists
    temp_file,            \* temp.pdf of the latest run exists
    outcome,              \* how the last script run ended
    shown,                \* the last script run offered the preview and the download
    extract_called,       \* this script run has called extract_text_from_pdf
    resubmit,             \* this run's bytes are those of the run before it
    prev_ok,              \* the run before this one ended normally
    text,                 \* argument of post_process_text
    once,                 \* post_process_text(text)
    twice,                \* post_process_text(once)
    words,                \* result of page.extract_words
    lines,                \* lines of process_page
    page_text             \* result of process_page

session == <<processed_file_hash, full_text, total_pages>>
run_locals == <<all_pages_text, total_text_length, start_idx, progress, chunks>>
disk == <<temp_dir, temp_file>>
history == <<resubmit, prev_ok>>
pure == <<text, once, twice, words, lines, page_text>>
vars == <<session, uploaded_file, pc, run_locals, err, disk, outcome, shown,
          extract_called, history, pure>>

\* Lines 21-30, on an empty session state.
init_session_state ==
    /\ processed_file_hash = None
    /\ full_text = None
    /\ total_pages = None

NoRun ==
    /\ all_pages_text = <<>>
    /\ total_text_length = 0
    /\ start_idx = 0
    /\ progress = <<>>
    /\ chunks = <<>>
    /\ err = "none"
    /\ temp_dir = FALSE
    /\ temp_file = FALSE
    /\ outcome = "none"
    /\ shown = FALSE
    /\ extract_called = FALSE
    /\ resubmit = FALSE
    /\ prev_ok = FALSE

NoPure ==
    /\ text = <<>>
    /\ once = <<>>
    /\ twice = <<>>
    /\ words = <<>>
    /\ lines = <<>>
    /\ page_text = <<>>

\* A new session: the script has run once with no file uploaded.
Init ==
    /\ init_session_state
    /\ uploaded_file = None
    /\ pc = "idle"
    /\ NoRun
    /\ NoPure

(***************************************************************************)
(* The script run: main, lines 243-297.                                    *)
(***************************************************************************)
\* The user puts a file into the uploader (the same bytes again, or others):
\* Streamlit runs the script from the top, with the session state kept.
Upload(bytes) ==
    /\ pc = "idle"
    /\ uploaded_file' = Some(bytes)
    /\ resubmit' = (uploaded_file = Some(bytes))
    /\ prev_ok' = (outcome = "ok")
    /\ pc' = "main"
    /\ all_pages_text' = <<>>
    /\ total_text_length' = 0
    /\ start_idx' = 0
    /\ progress' = <<>>
    /\ chunks' = <<>>
    /\ err' = "none"
    /\ outcome' = "running"
    /\ shown' = FALSE
    /\ extract_called' = FALSE
    /\ UNCHANGED <<session, disk, pure>>

\* Lines 256-258 and 252: st.session_state.clear(), st.rerun(), and
\* init_session_state of the run that follows.  The uploader keeps its file
\* or loses it.
Reset(keep_file) ==
    /\ pc = "idle"
    /\ processed_file_hash' = None
    /\ full_text' = None
    /\ total_pages' = None
    /\ uploaded_file' = IF keep_file THEN uploaded_file ELSE None
    /\ resubmit' = FALSE
    /\ prev_ok' = FALSE
    /\ pc' = "main"
    /\ all_pages_text' = <<>>
    /\ total_text_length' = 0
    /\ start_idx' = 0
    /\ progress' = <<>>
    /\ chunks' = <<>>
    /\ err' = "none"
    /\ outcome' = "running"
    /\ shown' = FALSE
    /\ extract_called' = FALSE
    /\ UNCHANGED <<disk, pure>>

\* Lines 267-269 and 288-293: no file, or check_file_size (lines 50-61).
CheckFileSize ==
    /\ pc = "main"
    /\ IF uploaded_file = None
       THEN pc' = "idle" /\ outcome' = "none"
       ELSE IF TooLarge(uploaded_file[1])
            THEN pc' = "idle" /\ outcome' = "SizeLimitExceeded"
            ELSE pc' = "process" /\ UNCHANGED outcome
    /\ UNCHANGED <<session, uploaded_file, run_locals, err, disk, shown,
                   extract_called, history, pure>>

\* Lines 212-220: the test of the stored hash.
ProcessAndShow ==
    /\ pc = "process"
    /\ IF CacheMiss(processed_file_hash, PyHash(uploaded_file[1]))
       THEN pc' = "temp_enter" /\ extract_called' = TRUE
       ELSE pc' = "show" /\ UNCHANGED extract_called
    /\ UNCHANGED <<session, uploaded_file, run_locals, err, disk, outcome, shown,
                   history, pure>>

\* Lines 37-42: temp_file_handler up to its yield.  io is what the file
\* system does: "ok", or mkdtemp, open or write fails.  mkdtemp is called
\* before the try statement: when it fails nothing exists and the
\* exception reaches main (lines 288-293) without the finally clause.
TempFileEnter(io) ==
    /\ pc = "temp_enter"
    /\ temp_dir' = (io # "mkdtemp_fails")
    /\ temp_file' = (io \notin {"mkdtemp_fails", "open_fails"})
    /\ IF io = "ok"
       THEN pc' = "count" /\ UNCHANGED <<err, outcome>>
       ELSE IF io = "mkdtemp_fails"
            THEN pc' = "idle" /\ err' = "IOError" /\ outcome' = "IOError"
            ELSE pc' = "temp_exit" /\ err' = "IOError" /\ UNCHANGED outcome
    /\ UNCHANGED <<session, uploaded_file, run_locals, shown,
                   extract_called, history, pure>>

\* Lines 158-162: get_total_pages (lines 136-147) and the progress bar.
GetTotalPages ==
    /\ pc = "count"
    /\ IF ~uploaded_file[1].readable
       THEN /\ err' = "InvalidDocument"
            /\ pc' = "temp_exit"
            /\ UNCHANGED <<total_pages, progress>>
       ELSE /\ total_pages' = Some(NumPages(uploaded_file[1]))
            /\ progress' = <<<<0, NumPages(uploaded_file[1])>>>>
            /\ pc' = IF 0 < NumPages(uploaded_file[1]) THEN "chunk" ELSE "temp_exit"
            /\ UNCHANGED err
    /\ UNCHANGED <<processed_file_hash, full_text, uploaded_file, all_pages_text,
                   total_text_length, start_idx, chunks, disk, outcome, shown,
                   extract_called, history, pure>>

\* Lines 165-180: one iteration of the loop over the chunks.
ProcessChunk ==
    /\ pc = "chunk"
    /\ LET n == total_pages[1]
           end_idx == ChunkEnd(start_idx, n)
           r == extract_text_from_pdf_chunk(uploaded_file[1], start_idx, end_idx)
           chunk_length == SumLen(r.chunk_text)
       IN /\ chunks' = Append(chunks, [k \in 1..Len(r.chunk_text) |-> start_idx + k])
          /\ IF r.raised
             THEN /\ err' = "ChunkError"
                  /\ pc' = "temp_exit"
                  /\ UNCHANGED <<all_pages_text, total_text_length, start_idx, progress>>
             ELSE IF ExceedsLimit(total_text_length, chunk_length)
             THEN /\ err' = "OutputTooLarge"
                  /\ pc' = "temp_exit"
                  /\ UNCHANGED <<all_pages_text, total_text_length, start_idx, progress>>
             ELSE /\ total_text_length' = total_text_length + chunk_length
                  /\ all_pages_text' = all_pages_text \o r.chunk_text
                  /\ progress' = Append(progress, <<end_idx, n>>)
                  /\ start_idx' = start_idx + CHUNK_SIZE
                  /\ pc' = IF start_idx + CHUNK_SIZE < n THEN "chunk" ELSE "temp_exit"
                  /\ UNCHANGED err
    /\ UNCHANGED <<session, uploaded_file, disk, outcome, shown, extract_called,
                   history, pure>>

\* Lines 43-48: os.remove raises when temp.pdf does not exist, and os.rmdir
\* is then skipped.
RemoveTemp(file_exists) ==
    [temp_file |-> FALSE, temp_dir |-> ~file_exists]

\* Lines 43-48, 185-189 and 235-237, 288-293: the finally clause of
\* temp_file_handler, then the exception in flight reaches main.
TempFileExit ==
    /\ pc = "temp_exit"
    /\ temp_file' = RemoveTemp(temp_file).temp_file
    /\ temp_dir' = RemoveTemp(temp_file).temp_dir
    /\ IF err # "none"
       THEN pc' = "idle" /\ outcome' = err
       ELSE pc' = "assemble" /\ UNCHANGED outcome
    /\ UNCHANGED <<session, uploaded_file, run_locals, err, shown, extract_called,
                   history, pure>>

\* Lines 223-233.
Assemble ==
    /\ pc = "assemble"
    /\ IF all_pages_text # <<>>
       THEN /\ full_text' = Some(OutputChunks(all_pages_text, 1))
            /\ processed_file_hash' = Some(PyHash(uploaded_file[1]))
            /\ pc' = "show"
            /\ UNCHANGED outcome
       ELSE /\ pc' = "idle"
            /\ outcome' = "NoText"
            /\ UNCHANGED <<processed_file_hash, full_text>>
    /\ UNCHANGED <<total_pages, uploaded_file, run_locals, err, disk, shown,
                   extract_called, history, pure>>

\* Lines 273-286.
ShowResult ==
    /\ pc = "show"
    /\ shown' = (full_text # None)
    /\ outcome' = "ok"
    /\ pc' = "idle"
    /\ UNCHANGED <<session, uploaded_file, run_locals, err, disk, extract_called,
                   history, pure>>

RunStep ==
    \/ CheckFileSize
    \/ ProcessAndShow
    \/ \E io \in {"ok", "mkdtemp_fails", "open_fails", "write_fails"} : TempFileEnter(io)
    \/ GetTotalPages
    \/ ProcessChunk
    \/ TempFileExit
    \/ Assemble
    \/ ShowResult

Next ==
    \/ \E bytes \in Documents(SessionPageSeqs) : Upload(bytes)
    \/ \E keep_file \in BOOLEAN : Reset(keep_file)
    \/ RunStep

Spec == Init /\ [][Next]_vars

\* One extraction run of a document, in a new session.
InitRun ==
    /\ init_session_state
    /\ uploaded_file \in {Some(b) : b \in Documents(RunPageSeqs)}
    /\ pc = "main"
    /\ NoRun
    /\ NoPure

SpecRun == InitRun /\ [][RunStep]_vars

(***************************************************************************)
(* post_process_text on every short text, applied once and then again.     *)
(***************************************************************************)
Texts == UNION {[1..n -> Alphabet] : n \in 0..MaxTextLen}

InitSanitize ==
    /\ init_session_state
    /\ uploaded_file = None
    /\ pc = "raw"
    /\ NoRun
    /\ text \in Texts
    /\ once = <<>>
    /\ twice = <<>>
    /\ words = <<>>
    /\ lines = <<>>
    /\ page_text = <<>>

SanitizeOnce ==
    /\ pc = "raw"
    /\ once' = post_process_text(text)
    /\ pc' = "once"
    /\ UNCHANGED <<session, uploaded_file, run_locals, err, disk, outcome, shown,
                   extract_called, history, text, twice, words, lines, page_text>>

SanitizeTwice ==
    /\ pc = "once"
    /\ twice' = post_process_text(once)
    /\ pc' = "twice"
    /\ UNCHANGED <<session, uploaded_file, run_locals, err, disk, outcome, shown,
                   extract_called, history, text, once, words, lines, page_text>>

NextSanitize == SanitizeOnce \/ SanitizeTwice

SpecSanitize == InitSanitize /\ [][NextSanitize]_vars

(***************************************************************************)
(* The line assembly of process_page on every small list of words.         *)
(***************************************************************************)
Letter(i) == <<"a", "b", "c", "d", "e">>[i]

\* The word list with the given positions; the i-th word is the i-th letter.
WordList(at) == [i \in DOMAIN at |-> [text |-> <<Letter(i)>>, top |-> at[i].top, x0 |-> at[i].x0]]

InitLines ==
    /\ init_session_state
    /\ uploaded_file = None
    /\ pc = "words"
    /\ NoRun
    /\ text = <<>>
    /\ once = <<>>
    /\ twice = <<>>
    /\ \E n \in 1..MaxWords :
          \E at \in [1..n -> [top : 0..MaxTop, x0 : 0..1]] : words = WordList(at)
    /\ lines = <<>>
    /\ page_text = <<>>

\* Lines 83-105, on a page whose words are not empty.
AssemblePage ==
    /\ pc = "words"
    /\ lines' = AssembleLines(words)
    /\ page_text' = post_process_text(RenderLines(AssembleLines(words)))
    /\ pc' = "lines"
    /\ UNCHANGED <<session, uploaded_file, run_locals, err, disk, outcome, shown,
                   extract_called, history, text, once, twice, words>>

SpecLines == InitLines /\ [][AssemblePage]_vars

(***************************************************************************)
(* Claims.                                                                 *)
(***************************************************************************)

\* C8: post_process_text is idempotent: applied to its own result it
\* returns that result unchanged.
C8_SanitizeIdempotent == pc = "twice" => twice = once

\* C8 witness: a text that the first application changed (a space was
\* inserted after a period and a character was removed) went through both.
C8_Witness ==
    /\ pc = "twice"
    /\ text = <<"#", "a", ".", "a", " ">>
    /\ once = <<"a", ".", " ", "a">>
    /\ twice = once

\* The words w1 and w2 of the page lie in the same line.
SameLine(w1, w2) ==
    \E k \in 1..Len(lines) :
        /\ \E i \in 1..Len(lines[k]) : lines[k][i] = w1
        /\ \E i \in 1..Len(lines[k]) : lines[k][i] = w2

WordSet == {words[i] : i \in 1..Len(words)}

\* No vertical gap of more than the tolerance separates w1 from w2: above
\* every word from the upper one on, short of the lower one, the next
\* word is at most the tolerance away.
NoGapBetween(w1, w2) ==
    LET lo == Min(w1.top, w2.top)
        hi == IF w1.top >= w2.top THEN w1.top ELSE w2.top
    IN \A u \in WordSet :
          (lo <= u.top /\ u.top < hi) =>
              \E v \in WordSet : u.top < v.top /\ v.top <= u.top + LINE_TOLERANCE

\* C10 as stated: two words are in the same line if and only if their tops
\* differ by no more than 3.
C10_Original ==
    pc = "lines" =>
        \A w1, w2 \in WordSet :
            SameLine(w1, w2) <=> Abs(w1.top - w2.top) <= LINE_TOLERANCE

\* C10 amended: two words are in the same line if and only if no vertical
\* gap of more than 3 separates them (every two words consecutive in top
\* order between them differ by at most 3); words whose tops differ by no
\* more than 3 are always in the same line.
C10_LineMembership ==
    pc = "lines" =>
        \A w1, w2 \in WordSet :
            /\ SameLine(w1, w2) <=> NoGapBetween(w1, w2)
            /\ Abs(w1.top - w2.top) <= LINE_TOLERANCE => SameLine(w1, w2)

\* C10 witness: three words in one line, the first and the last more than
\* the tolerance apart, and a page with two lines.
C10_Witness ==
    /\ pc = "lines"
    /\ Len(words) = 3
    /\ \E w1, w2 \in WordSet : SameLine(w1, w2) /\ Abs(w1.top - w2.top) > LINE_TOLERANCE
    /\ Len(lines) = 1

\* The uploaded document of the run and its pages.
Doc == uploaded_file[1]
N == NumPages(Doc)

\* extract_text_from_pdf was called in this script run and has returned or raised.
RunReturned == extract_called /\ pc \in {"assemble", "show", "idle"}

\* Length of the text page k of the document stands for in the output.
ExpectedLen(page, k) ==
    IF page.extract = "raise" THEN 20 + Digits(k) + page.chars
    ELSE IF page.extract = "nowords" THEN 24 + Digits(k)
    ELSE page.chars

RECURSIVE ExpectedChars(_, _)
ExpectedChars(pages, k) ==
    IF k = 0 THEN 0 ELSE ExpectedLen(pages[k], k) + ExpectedChars(pages, k - 1)

\* C1: a run on a document of N >= 1 pages that pdfplumber opens, whose
\* temporary file was written and whose output stays within
\* MAX_TEXT_LENGTH, does not fail and returns N page texts in page order:
\* an error placeholder naming page k where extract_words raised, and for
\* every other page the text that page gives whatever the other pages do.
C1_PageFaultIsolation ==
    (/\ RunReturned
     /\ Doc.readable
     /\ N >= 1
     /\ err # "IOError"
     /\ ExpectedChars(Doc.pages, N) <= MAX_TEXT_LENGTH)
    => /\ err = "none"
       /\ Len(all_pages_text) = N
       /\ \A k \in 1..N :
            IF Doc.pages[k].extract = "raise"
            THEN all_pages_text[k].kind = "error" /\ all_pages_text[k].page = k
            ELSE IF Doc.pages[k].extract = "nowords"
            THEN all_pages_text[k].kind = "no_content" /\ all_pages_text[k].page = k
            ELSE all_pages_text[k] = [kind |-> "text", page |-> 0,
                                      len |-> Doc.pages[k].chars]

\* C1 witness: the run on a 3-page document whose page 2 raises has
\* returned 3 page texts.
C1_Witness ==
    /\ pc = "assemble"
    /\ Doc.pages = <<WordsPage, RaisePage, WordsPage>>
    /\ Len(all_pages_text) = 3
    /\ all_pages_text[2].kind = "error"

\* C2 as stated: the final text of a successful run has one block for
\* each page 1..N, in ascending order.
C2_Original ==
    (pc = "show" /\ extract_called) =>
        /\ full_text # None
        /\ Len(full_text[1]) = N
        /\ \A i \in 1..Len(full_text[1]) : full_text[1][i].header = i

\* The pages given to process_page in this run, in the order of the calls.
RECURSIVE Flatten(_)
Flatten(ss) == IF ss = <<>> THEN <<>> ELSE ss[1] \o Flatten(Tail(ss))

RECURSIVE ProcessedChars(_)
ProcessedChars(page_nums) ==
    IF page_nums = <<>> THEN 0
    ELSE ExpectedLen(Doc.pages[page_nums[1]], page_nums[1]) + ProcessedChars(Tail(page_nums))

C3_State ==
    /\ total_text_length <= MAX_TEXT_LENGTH
    /\ all_pages_text # <<>> =>
          total_text_length = ExpectedChars(Doc.pages, Len(all_pages_text))
    /\ err = "OutputTooLarge" <=>
          (chunks # <<>> /\ ProcessedChars(Flatten(chunks)) > MAX_TEXT_LENGTH)
    /\ err = "OutputTooLarge" =>
          /\ pc \in {"temp_exit", "idle"}
          /\ ~shown
          /\ Len(Flatten(chunks)) = Len(all_pages_text) + Len(chunks[Len(chunks)])
          /\ processed_file_hash # Some(PyHash(Doc))

C3_Step ==
    /\ err' = "OutputTooLarge" =>
          /\ UNCHANGED <<full_text, processed_file_hash>>
          /\ err = "OutputTooLarge" => UNCHANGED <<chunks, all_pages_text>>
    /\ (full_text' # full_text \/ processed_file_hash' # processed_file_hash) =>
          (pc = "idle" \/ (pc = "assemble" /\ err = "none"))

\* C3: the running total is the sum of the lengths of the page texts of
\* the chunks accepted so far and never exceeds MAX_TEXT_LENGTH; the run
\* fails with the output-too-large error exactly when the texts of the
\* chunks processed so far exceed it; after that no further chunk is
\* processed, nothing is shown, and the failing run writes neither
\* full_text nor processed_file_hash.
C3_OutputCeiling == [](C3_State) /\ [][C3_Step]_vars

\* C3 witness: a run failed on the ceiling in its second chunk, and the
\* result of an earlier document is still stored.
C3_Witness ==
    /\ pc = "idle"
    /\ outcome = "OutputTooLarge"
    /\ Len(chunks) = 2
    /\ Len(all_pages_text) = CHUNK_SIZE
    /\ full_text # None

\* C4 as stated: check_file_size rejects exactly the documents longer than
\* MAX_FILE_SIZE bytes, and a rejected document gives no page results.
C4_Original ==
    (pc # "main" /\ uploaded_file # None) =>
        /\ outcome = "SizeLimitExceeded" <=> Doc.size > MAX_FILE_SIZE
        /\ outcome = "SizeLimitExceeded" =>
              ~extract_called /\ chunks = <<>> /\ all_pages_text = <<>>

C5_State ==
    (resubmit /\ prev_ok) =>
        /\ ~extract_called
        /\ chunks = <<>>
        /\ processed_file_hash = Some(PyHash(Doc))
        /\ pc = "idle" => outcome = "ok" /\ shown

C5_Step == (resubmit' /\ prev_ok') => UNCHANGED <<full_text, processed_file_hash>>

C6_Original ==
    pc \in {"assemble", "show", "idle"} => ~temp_file /\ ~temp_dir

Ceil(a, b) == (a + b - 1) \div b

C7_Progress ==
    /\ progress # <<>> =>
          /\ progress[1] = <<0, N>>
          /\ progress[Len(progress)] = <<Len(all_pages_text), N>>
    /\ \A i \in 1..(Len(progress) - 1) :
          progress[i][1] <= progress[i + 1][1] /\ progress[i + 1][2] = N

C7_Batches ==
    (RunReturned /\ err = "none" /\ N >= 1) =>
        /\ Len(chunks) = Ceil(N, CHUNK_SIZE)
        /\ \A k \in 1..Len(chunks) :
              /\ Len(chunks[k]) = IF k < Len(chunks) THEN CHUNK_SIZE
                                  ELSE N - (k - 1) * CHUNK_SIZE
              /\ \A j \in 1..Len(chunks[k]) : chunks[k][j] = (k - 1) * CHUNK_SIZE + j
        /\ Len(progress) = Len(chunks) + 1
        /\ progress[Len(progress)] = <<N, N>>

\* C7: a run that does not fail on a document of N >= 1 pages processes
\* ceil(N / CHUNK_SIZE) chunks, the contiguous page ranges in ascending
\* order, each of CHUNK_SIZE pages but possibly the last; the progress
\* values are completed pages over N, start at 0, never decrease, and the
\* last one is N over N.
C7_BatchingAndProgress == C7_Progress /\ C7_Batches

\* C7 witness: a 12-page document was processed in chunks of 5, 5 and 2
\* pages and the progress ended at 12 over 12.
C7_Witness ==
    /\ pc = "assemble"
    /\ N = 12
    /\ Len(chunks) = 3
    /\ Len(chunks[1]) = 5 /\ Len(chunks[2]) = 5 /\ Len(chunks[3]) = 2
    /\ progress = <<<<0, 12>>, <<5, 12>>, <<10, 12>>, <<12, 12>>>>

\* The text a complete run assembles for document d.
CompleteText(d) ==
    OutputChunks([k \in 1..NumPages(d) |-> process_page(d.pages[k], k)], 1)

C9_State ==
    /\ shown =>
          /\ uploaded_file # None
          /\ outcome = "ok"
          /\ full_text # None
          /\ processed_file_hash = Some(PyHash(Doc))
    /\ full_text # None =>
          \E d \in Documents(SessionPageSeqs) :
              /\ NumPages(d) >= 1
              /\ processed_file_hash = Some(PyHash(d))
              /\ full_text = Some(CompleteText(d))

C9_Step ==
    (full_text' # full_text \/ processed_file_hash' # processed_file_hash) =>
        \/ pc = "idle" /\ full_text' = None /\ processed_file_hash' = None
        \/ /\ pc = "assemble"
           /\ err = "none"
           /\ processed_file_hash # Some(PyHash(Doc))
           /\ Len(all_pages_text) = N
           /\ processed_file_hash' = Some(PyHash(Doc))
           /\ full_text' = Some(CompleteText(Doc))

\* C9: whenever the preview and the download are offered, the run ended
\* normally and the stored hash is the hash of the uploaded bytes; a
\* stored full_text is always the text assembled from all pages of a
\* document with the stored hash; and the stored result changes only by a
\* reset, which clears it, or at the end of a run without error on a
\* document whose hash differs from the stored one.
C9_ExposedResult == [](C9_State) /\ [][C9_Step]_vars

\* C9 witness: the result of a two-chunk document is shown, replacing the
\* result of an earlier document.
C9_Witness ==
    /\ shown
    /\ extract_called
    /\ prev_ok
    /\ ~resubmit
    /\ Len(full_text[1]) = CHUNK_SIZE + 1

====
